---- MODULE Spec2Model ----
(***************************************************************************)
(* Model of posts/views.py (PostViewSet): the create / update handlers    *)
(* with their tag rules, the listing order, and the popular() query.      *)
(***************************************************************************)
EXTENDS Integers, Sequences, FiniteSets, TLC

VARIABLES
    posts,      \* the Post table: sequence of rows, the id is the index
    phase,      \* "idle" | "done": a request has been handled, response not yet returned
    req,        \* the request handled last (NoReq when idle)
    resp,       \* its response
    before,     \* the Post table as it was when the request arrived
    table,      \* the columns of Post the queries read: pinned, created_time, visibility
    replies,    \* replies[p][d]: the number of replies of post p with submit_date d
    clock,      \* the time now() returns
    backend,    \* where the database puts NULL in a descending sort
    out,        \* the result of the query run last (NoOut when idle)
    txs,        \* txs[t]: how far the mutation t has got with its two writes
    ghost       \* ghost[id]: which mutation's writes the row id holds

vars == <<posts, phase, req, resp, before, table, replies, clock, backend, out, txs, ghost>>

storeVars == <<posts, req, resp, before>>
rankVars == <<table, replies, clock, backend>>
txVars == <<txs, ghost>>

----------------------------------------------------------------------------
(* Bounds and input sets *)

MaxPosts == 2
MaxTime == 4        \* the clock stops here
MaxReplies == 5     \* replies in the Reply table
MaxTx == 3          \* mutations run against the store, concurrently

\* the posts of the ranking queries, created at time 0 or 1; the clock starts at 1
RankIds == {1, 2}
Dates == 1..MaxTime

\* rows of tags.models.Tag (the registry); "x" names no tag
Tags == {"a", "b", "c", "d"}

\* is_staff users; "anon" is the unauthenticated actor
Users == {"alice", "bob"}
Admins == {"bob"}
Actors == Users \cup {"anon"}

\* the lists a client sends as "tags"
TagLists ==
    { <<>>, <<"a">>, <<"a", "a">>, <<"x">>, <<"a", "x">>,
      <<"a", "b", "c">>, <<"a", "b", "x">>,
      <<"a", "b", "c", "d">>, <<"a", "a", "a", "a">>, <<"x", "a", "b", "c">> }

\* the "tags" key of request.data: missing, JSON null, or a list of names
TagsFields ==
    { [kind |-> "absent", names |-> <<>>], [kind |-> "null", names |-> <<>>] }
    \cup { [kind |-> "list", names |-> s] : s \in TagLists }

\* the other fields of the payload, with the verdict of serializer.is_valid on them
FieldPayloads ==
    { [title |-> "t1", valid |-> TRUE], [title |-> "t2", valid |-> TRUE],
      [title |-> "t2", valid |-> FALSE] }

NoReq == [method |-> "none"]
NoOut == [query |-> "none"]

Request(m, i, a, f, t) ==
    [method |-> m, id |-> i, actor |-> a, title |-> f.title, valid |-> f.valid, tags |-> t]

CreateRequests ==
    { Request("POST", 0, a, f, t) : a \in Actors, f \in FieldPayloads, t \in TagsFields }

UpdateRequests(m) ==
    UNION { { Request(m, i, a, f, t) : a \in Actors, f \in FieldPayloads }
            : i \in 1..MaxPosts, t \in TagsFields }

----------------------------------------------------------------------------
(* Helpers of the handlers *)

Range(s) == { s[i] : i \in 1..Len(s) }

\* request.data.get('tags'): None for a missing key and for a null value
DataGet(field) ==
    IF field.kind = "list"
        THEN [isNone |-> FALSE, names |-> field.names]
        ELSE [isNone |-> TRUE, names |-> <<>>]

\* Python truthiness of tags_data
Truthy(tags_data) == ~tags_data.isNone /\ Len(tags_data.names) > 0

\* permissions.IsAuthenticatedOrReadOnly on POST / PUT / PATCH
IsAuthenticatedOrReadOnly(r) == r.actor \in Users

\* permissions.IsAdminAuthorOrReadOnly on a write: the author or an admin
IsAdminAuthorOrReadOnly(actor, post) == actor = post.author \/ actor \in Admins

Response(status, store) == [resp |-> status, posts |-> store]

\* for name in tags_data: Tag.objects.get(name=name)
ResolveTags(tags_data) ==
    IF \A i \in 1..Len(tags_data.names) : tags_data.names[i] \in Tags
        THEN [ok |-> TRUE, tags |-> Range(tags_data.names)]
        ELSE [ok |-> FALSE, tags |-> {}]

----------------------------------------------------------------------------
(* serializer.save: the row's fields, then its tag associations *)

SaveNewFields(store, r) ==
    Append(store, [title |-> r.title, author |-> r.actor, tags |-> {}])

SaveFields(store, r) ==
    [store EXCEPT ![r.id].title = r.title]

SaveTags(store, id, tags) ==
    [store EXCEPT ![id].tags = tags]

----------------------------------------------------------------------------
(* PostViewSet.create / perform_create *)

CreateTagCount(tags_data) ==
    IF ~Truthy(tags_data) THEN "EmptyTagSelection"
    ELSE IF Len(tags_data.names) > 3 THEN "TooManyTags"
    ELSE "pass"

perform_create(r, store) ==
    LET tags_data == DataGet(r.tags)
        count == CreateTagCount(tags_data)
        found == ResolveTags(tags_data)
    IN  IF count # "pass" THEN Response(count, store)
        ELSE IF ~found.ok THEN Response("UnknownTag", store)
        ELSE Response("Created",
                      SaveTags(SaveNewFields(store, r), Len(store) + 1, found.tags))

create(r, store) ==
    IF ~r.valid THEN Response("InvalidFields", store)
    ELSE perform_create(r, store)

----------------------------------------------------------------------------
(* PostViewSet.update / perform_update *)

\* a bug: the upper limit on the number of names is not checked on update
UpdateTagCountNoLimit(partial, tags_data) ==
    IF partial /\ tags_data.isNone THEN "pass"
    ELSE IF ~Truthy(tags_data) THEN "EmptyTagSelection"
    ELSE "pass"

UpdateTagCount(partial, tags_data) ==
    IF partial /\ tags_data.isNone THEN "pass"
    ELSE IF ~Truthy(tags_data) THEN "EmptyTagSelection"
    ELSE IF Len(tags_data.names) > 3 THEN "TooManyTags"
    ELSE "pass"

\* a bug: the lookup without check_object_permissions
get_objectUnchecked(store, id, actor) ==
    IF id \notin 1..Len(store) THEN "NotFound" ELSE "found"

\* self.get_object(): the lookup, then check_object_permissions
get_object(store, id, actor) ==
    IF id \notin 1..Len(store) THEN "NotFound"
    ELSE IF ~IsAdminAuthorOrReadOnly(actor, store[id]) THEN "PermissionDenied"
    ELSE "found"

\* a bug: the row is saved before the names are resolved
perform_updateEarlySave(r, store) ==
    LET tags_data == DataGet(r.tags)
        found == ResolveTags(tags_data)
    IN  IF Truthy(tags_data)
            THEN IF ~found.ok THEN Response("UnknownTag", SaveFields(store, r))
                 ELSE Response("OK", SaveTags(SaveFields(store, r), r.id, found.tags))
            ELSE Response("OK", SaveFields(store, r))

\* a bug: save(tags=tags) is called with the empty list when no tags were sent
perform_updateClearTags(r, store) ==
    LET tags_data == DataGet(r.tags)
        found == ResolveTags(tags_data)
    IN  IF Truthy(tags_data) /\ ~found.ok THEN Response("UnknownTag", store)
        ELSE Response("OK", SaveTags(SaveFields(store, r), r.id, found.tags))

perform_update(r, store) ==
    LET tags_data == DataGet(r.tags)
        found == ResolveTags(tags_data)
    IN  IF Truthy(tags_data)
            THEN IF ~found.ok THEN Response("UnknownTag", store)
                 ELSE Response("OK", SaveTags(SaveFields(store, r), r.id, found.tags))
            ELSE Response("OK", SaveFields(store, r))

\* a bug: the post is looked up before the tag counts are checked
updateLookupFirst(r, store) ==
    LET partial == r.method = "PATCH"
        count == UpdateTagCount(partial, DataGet(r.tags))
        obj == get_object(store, r.id, r.actor)
    IN  IF obj # "found" THEN Response(obj, store)
        ELSE IF count # "pass" THEN Response(count, store)
        ELSE IF ~r.valid THEN Response("InvalidFields", store)
        ELSE perform_update(r, store)

update(r, store) ==
    LET partial == r.method = "PATCH"
        count == UpdateTagCount(partial, DataGet(r.tags))
        obj == get_object(store, r.id, r.actor)
    IN  IF count # "pass" THEN Response(count, store)
        ELSE IF obj # "found" THEN Response(obj, store)
        ELSE IF ~r.valid THEN Response("InvalidFields", store)
        ELSE perform_update(r, store)

\* APIView.initial: permission_classes are checked before the handler runs
Dispatch(r, store) ==
    IF ~IsAuthenticatedOrReadOnly(r) THEN Response("NotAuthenticated", store)
    ELSE IF r.method = "POST" THEN create(r, store)
    ELSE update(r, store)

----------------------------------------------------------------------------
(* The request/response cycle *)

Handle(r) ==
    LET res == Dispatch(r, posts)
    IN  /\ Len(res.posts) <= MaxPosts
        /\ posts' = res.posts
        /\ resp' = res.resp
        /\ req' = r
        /\ before' = posts
        /\ phase' = "done"
        /\ UNCHANGED <<rankVars, out, txVars>>

\* POST /posts
PostCreate ==
    /\ phase = "idle"
    /\ \E r \in CreateRequests : Handle(r)

\* PUT /posts/{id}
PutUpdate ==
    /\ phase = "idle"
    /\ \E r \in UpdateRequests("PUT") : Handle(r)

\* PATCH /posts/{id}: partial_update calls update with partial=True
PatchUpdate ==
    /\ phase = "idle"
    /\ \E r \in UpdateRequests("PATCH") : Handle(r)

Return ==
    /\ phase = "done"
    /\ phase' = "idle"
    /\ req' = NoReq
    /\ resp' = "none"
    /\ before' = <<>>
    /\ out' = NoOut
    /\ UNCHANGED <<posts, rankVars, txVars>>

NoRequest ==
    /\ phase = "idle"
    /\ req = NoReq
    /\ resp = "none"
    /\ before = <<>>
    /\ out = NoOut

NewTx == [pc |-> "new"]

NoTxs ==
    /\ txs = [t \in 1..MaxTx |-> NewTx]
    /\ ghost = <<>>

Init ==
    /\ posts = <<>>
    /\ NoRequest
    /\ NoTxs
    /\ table = <<>>
    /\ replies = <<>>
    /\ clock = 1
    /\ backend = "nulls_last"

Next == PostCreate \/ PutUpdate \/ PatchUpdate \/ Return

Spec == Init /\ [][Next]_vars

----------------------------------------------------------------------------
(* The ranking queries: aggregates over the Reply table *)

WindowDays == 2     \* datetime.timedelta(days=2), one tick of the clock a day
PopularLimit == 10  \* [:10]

RECURSIVE SumCounts(_, _)
SumCounts(f, S) ==
    IF S = {} THEN 0
    ELSE LET d == CHOOSE x \in S : TRUE IN f[d] + SumCounts(f, S \ {d})

TotalReplies == SumCounts([p \in RankIds |-> SumCounts(replies[p], Dates)], RankIds)

\* Count('replies')
num_replies(p) == SumCounts(replies[p], Dates)

\* Max('replies__submit_date'): NULL for a post without replies
latest_reply_time(p) ==
    LET S == { d \in Dates : replies[p][d] > 0 }
    IN  IF S = {} THEN [null |-> TRUE, t |-> 0]
        ELSE [null |-> FALSE, t |-> CHOOSE d \in S : \A e \in S : e <= d]

\* a nullable column sorted DESC: 1 when a comes first, -1 when b does, 0 when equal
DescNullable(a, b) ==
    IF a.null /\ b.null THEN 0
    ELSE IF a.null THEN (IF backend = "nulls_first" THEN 1 ELSE -1)
    ELSE IF b.null THEN (IF backend = "nulls_first" THEN -1 ELSE 1)
    ELSE IF a.t > b.t THEN 1 ELSE IF a.t < b.t THEN -1 ELSE 0

Desc(a, b) == IF a > b THEN 1 ELSE IF a < b THEN -1 ELSE 0

DescBool(a, b) == IF a /\ ~b THEN 1 ELSE IF b /\ ~a THEN -1 ELSE 0

\* the first column that tells the two rows apart decides
Lex(cs) ==
    IF \A i \in 1..Len(cs) : cs[i] = 0 THEN 0
    ELSE cs[CHOOSE i \in 1..Len(cs) : cs[i] # 0 /\ \A j \in 1..(i - 1) : cs[j] = 0]

\* order_by('-pinned', '-latest_reply_time', '-created_time')
ListOrder(p, q) ==
    Lex(<< DescBool(table[p].pinned, table[q].pinned),
           DescNullable(latest_reply_time(p), latest_reply_time(q)),
           Desc(table[p].created_time, table[q].created_time) >>)

\* order_by('-num_replies', '-latest_reply_time')
PopularOrder(p, q) ==
    Lex(<< Desc(num_replies(p), num_replies(q)),
           DescNullable(latest_reply_time(p), latest_reply_time(q)) >>)

RowOrder(query, p, q) ==
    IF query = "list" THEN ListOrder(p, q) ELSE PopularOrder(p, q)

\* the orders in which the database may return the rows S under the query's ORDER BY:
\* no row is returned after a row it sorts strictly before
Orderings(S, query) ==
    { s \in [1..Cardinality(S) -> S] :
        /\ \A i, j \in DOMAIN s : i # j => s[i] # s[j]
        /\ \A i, j \in DOMAIN s : i < j => RowOrder(query, s[j], s[i]) # 1 }

Take(s, n) == SubSeq(s, 1, IF Len(s) < n THEN Len(s) ELSE n)

\* a bug: latest_reply_time__gte
PopularFilterInclusive(p, now1, now2) ==
    /\ table[p].public
    /\ num_replies(p) > 0
    /\ ~latest_reply_time(p).null
    /\ latest_reply_time(p).t >= now1 - WindowDays
    /\ latest_reply_time(p).t < now2

\* Post.public ... .filter(num_replies__gt=0, latest_reply_time__gt=now() - 2 days,
\* latest_reply_time__lt=now()); a comparison with NULL is not true
PopularFilter(p, now1, now2) ==
    /\ table[p].public
    /\ num_replies(p) > 0
    /\ ~latest_reply_time(p).null
    /\ latest_reply_time(p).t > now1 - WindowDays
    /\ latest_reply_time(p).t < now2

\* the reply subsystem stores a reply, its submit_date the time of the call
AddReply ==
    /\ phase = "idle"
    /\ TotalReplies < MaxReplies
    /\ \E p \in RankIds : replies' = [replies EXCEPT ![p][clock] = @ + 1]
    /\ UNCHANGED <<storeVars, phase, table, clock, backend, out, txVars>>

Tick ==
    /\ phase = "idle"
    /\ clock < MaxTime
    /\ clock' = clock + 1
    /\ UNCHANGED <<storeVars, phase, table, replies, backend, out, txVars>>

\* GET /posts: the queryset of the viewset
List ==
    /\ phase = "idle"
    /\ \E s \in Orderings(RankIds, "list") :
           out' = [query |-> "list", rows |-> s, now1 |-> clock, now2 |-> clock]
    /\ phase' = "done"
    /\ UNCHANGED <<storeVars, rankVars, txVars>>

\* GET /posts/popular: now() is read twice, the second reading not before the first
popular ==
    /\ phase = "idle"
    /\ \E now2 \in { t \in {clock, clock + 1} : t <= MaxTime } :
         /\ clock' = now2
         /\ \E s \in Orderings({ p \in RankIds : PopularFilter(p, clock, now2) },
                               "popular") :
                out' = [query |-> "popular", rows |-> Take(s, PopularLimit),
                        now1 |-> clock, now2 |-> now2]
    /\ phase' = "done"
    /\ UNCHANGED <<storeVars, table, replies, backend, txVars>>

RankRows == [pinned : BOOLEAN, created_time : {0, 1}, public : BOOLEAN]

NoReplies == [p \in RankIds |-> [d \in Dates |-> 0]]

InitList ==
    /\ posts = <<>>
    /\ NoRequest
    /\ NoTxs
    /\ table \in [RankIds -> { r \in RankRows : r.public }]
    /\ replies = NoReplies
    /\ clock = 1
    /\ backend \in {"nulls_last", "nulls_first"}

NextList == AddReply \/ Tick \/ List \/ Return

SpecList == InitList /\ [][NextList]_vars

InitPopular ==
    /\ posts = <<>>
    /\ NoRequest
    /\ NoTxs
    /\ table \in [RankIds -> { r \in RankRows : ~r.pinned /\ r.created_time = 0 }]
    /\ replies = NoReplies
    /\ clock = 1
    /\ backend = "nulls_last"

NextPopular == AddReply \/ Tick \/ popular \/ Return

SpecPopular == InitPopular /\ [][NextPopular]_vars

----------------------------------------------------------------------------
(* serializer.save one write at a time: the handlers open no transaction, so  *)
(* each write commits on its own and other requests run in between.          *)

\* the mutations run here: accepted requests of an admin
TxRequests ==
    { r \in CreateRequests \cup UpdateRequests("PUT") \cup UpdateRequests("PATCH") :
        /\ r.actor = "bob" /\ r.valid
        /\ r.tags.kind = "list" => r.tags.names \in { <<"a">>, <<"a", "b", "c">> } }

\* what the mutation is to persist
Intent(r) ==
    [title |-> r.title,
     hasTags |-> Truthy(DataGet(r.tags)),
     tags |-> ResolveTags(DataGet(r.tags)).tags]

Accepted(r) == Dispatch(r, posts).resp \in {"Created", "OK"}

\* perform_create up to the INSERT of the row; its tags are set by a later write
BeginCreate(t) ==
    /\ txs[t].pc = "new"
    /\ \E r \in TxRequests :
         /\ r.method = "POST" /\ Accepted(r)
         /\ Len(posts) < MaxPosts
         /\ posts' = SaveNewFields(posts, r)
         /\ ghost' = Append(ghost, [intent |-> Intent(r), tornBy |-> 0])
         /\ txs' = [txs EXCEPT ![t] = [pc |-> "tags", id |-> Len(posts) + 1, r |-> r]]
    /\ UNCHANGED <<phase, req, resp, before, rankVars, out>>

\* perform_update with no tags to set: save() is the one UPDATE of the row
BeginUpdateFields(t) ==
    /\ txs[t].pc = "new"
    /\ \E r \in TxRequests :
         /\ r.method # "POST" /\ Accepted(r) /\ ~Intent(r).hasTags
         /\ posts' = SaveFields(posts, r)
         /\ ghost' = [ghost EXCEPT ![r.id].intent = Intent(r)]
         /\ txs' = [txs EXCEPT ![t] = [pc |-> "done", id |-> r.id, r |-> r]]
    /\ UNCHANGED <<phase, req, resp, before, rankVars, out>>

\* perform_update with tags: the first of the two writes of save(tags=tags),
\* the UPDATE of the row or the write of its tag associations, whichever the
\* serializer's update() issues first
BeginUpdate(t) ==
    /\ txs[t].pc = "new"
    /\ \E r \in TxRequests :
         /\ r.method # "POST" /\ Accepted(r) /\ Intent(r).hasTags
         /\ \/ /\ posts' = SaveFields(posts, r)
               /\ ghost' = [ghost EXCEPT ![r.id].intent = Intent(r)]
               /\ txs' = [txs EXCEPT ![t] = [pc |-> "tags", id |-> r.id, r |-> r]]
            \/ /\ posts' = SaveTags(posts, r.id, Intent(r).tags)
               /\ ghost' = [ghost EXCEPT ![r.id].tornBy = t]
               /\ txs' = [txs EXCEPT ![t] = [pc |-> "fields", id |-> r.id, r |-> r]]
    /\ UNCHANGED <<phase, req, resp, before, rankVars, out>>

\* the second write, when it is the tag associations
WriteTags(t) ==
    /\ txs[t].pc = "tags"
    /\ posts' = SaveTags(posts, txs[t].id, Intent(txs[t].r).tags)
    /\ ghost' = [ghost EXCEPT ![txs[t].id].tornBy = 0]
    /\ txs' = [txs EXCEPT ![t].pc = "done"]
    /\ UNCHANGED <<phase, req, resp, before, rankVars, out>>

\* the second write, when it is the row
WriteFields(t) ==
    /\ txs[t].pc = "fields"
    /\ posts' = SaveFields(posts, txs[t].r)
    /\ ghost' = [ghost EXCEPT ![txs[t].id].intent = Intent(txs[t].r),
                              ![txs[t].id].tornBy = IF @ = t THEN 0 ELSE @]
    /\ txs' = [txs EXCEPT ![t].pc = "done"]
    /\ UNCHANGED <<phase, req, resp, before, rankVars, out>>

\* the second write fails (the storage raises, the worker dies): the error
\* propagates, and the first write stays committed
FailBetweenWrites(t) ==
    /\ txs[t].pc \in {"tags", "fields"}
    /\ txs' = [txs EXCEPT ![t].pc = "failed"]
    /\ UNCHANGED <<posts, ghost, phase, req, resp, before, rankVars, out>>

InitTx == Init

NextTx ==
    \E t \in 1..MaxTx :
        \/ BeginCreate(t)
        \/ BeginUpdateFields(t)
        \/ BeginUpdate(t)
        \/ WriteTags(t)
        \/ WriteFields(t)
        \/ FailBetweenWrites(t)

SpecTx == InitTx /\ [][NextTx]_vars

----------------------------------------------------------------------------
(* Properties of create / update *)

ValidationErrors == {"EmptyTagSelection", "TooManyTags", "UnknownTag"}

IsUpdate == phase = "done" /\ req.method \in {"PUT", "PATCH"}

TargetExists == req.id \in 1..Len(before)

\* the permission classes let the actor modify the target post
MayModify ==
    /\ req.actor \in Users
    /\ IsAdminAuthorOrReadOnly(req.actor, before[req.id])

\* C1: every post in the store has between 1 and 3 tags
C1_TagCountInvariant ==
    \A i \in 1..Len(posts) : Cardinality(posts[i].tags) \in 1..3

C1_Witness ==
    /\ IsUpdate /\ req.method = "PUT" /\ resp = "OK"
    /\ Cardinality(posts[req.id].tags) = 3
    /\ before[req.id].tags # posts[req.id].tags

\* the tag rules of the validator, as a function of the "tags" payload
TagRule(field) ==
    IF field.kind # "list" \/ field.names = <<>> THEN "EmptyTagSelection"
    ELSE IF Len(field.names) > 3 THEN "TooManyTags"
    ELSE IF \E i \in 1..Len(field.names) : field.names[i] \notin Tags THEN "UnknownTag"
    ELSE "pass"

TagVerdict(status) == IF status \in {"Created", "OK"} THEN "pass" ELSE status

\* nothing but the tag rules can fail the request
OnlyTagsDecide ==
    /\ phase = "done"
    /\ req.actor \in Users
    /\ req.valid
    /\ req.method # "POST" => TargetExists /\ MayModify

\* C2: create, full update, and a partial update whose tags field is present
\* all give the verdict of the same tag rules
C2_SameTagRules ==
    /\ OnlyTagsDecide
    /\ req.method \in {"POST", "PUT"} \/ req.tags.kind # "absent"
    => TagVerdict(resp) = TagRule(req.tags)

\* the same, leaving out the partial update that sends "tags": null
C2_SameTagRulesNoNullPatch ==
    /\ OnlyTagsDecide
    /\ req.method \in {"POST", "PUT"} \/ req.tags.kind = "list"
    => TagVerdict(resp) = TagRule(req.tags)

\* C3: a request that fails with a validation error leaves the store as it was
C3_NoPartialWrites ==
    phase = "done" /\ resp \in ValidationErrors => posts = before

C3_Witness ==
    /\ IsUpdate /\ resp = "UnknownTag"
    /\ req.title # before[req.id].title

\* C4: a PATCH without the tags field is never failed by a tag rule, and when it
\* succeeds the post's tags are the ones it had
C4_PatchWithoutTagsKeepsTags ==
    IsUpdate /\ req.method = "PATCH" /\ req.tags.kind = "absent"
    => /\ resp \notin ValidationErrors
       /\ resp = "OK" => posts[req.id].tags = before[req.id].tags

C4_Witness ==
    /\ IsUpdate /\ req.method = "PATCH" /\ req.tags.kind = "absent"
    /\ resp = "OK"
    /\ posts[req.id].title # before[req.id].title
    /\ Cardinality(posts[req.id].tags) = 3

\* C9: an update by an actor who may not modify the target changes nothing
C9_DeniedUpdateChangesNothing ==
    IsUpdate /\ TargetExists /\ ~MayModify => posts = before

C9_Witness ==
    /\ IsUpdate /\ TargetExists /\ ~MayModify
    /\ resp = "PermissionDenied"
    /\ req.valid /\ req.title # before[req.id].title
    /\ TagRule(req.tags) = "pass"
    /\ Range(req.tags.names) # before[req.id].tags

\* tags absent or empty on PUT, present but empty on PATCH
CountEmpty ==
    \/ req.method = "PUT" /\ (req.tags.kind # "list" \/ req.tags.names = <<>>)
    \/ req.method = "PATCH" /\ req.tags.kind = "list" /\ req.tags.names = <<>>

CountTooMany == req.tags.kind = "list" /\ Len(req.tags.names) > 3

\* C10: for an authenticated actor the tag-count errors are reported whether or
\* not the post exists and the actor may modify it; UnknownTag is reported only
\* for a post that exists and that the actor may modify
C10_CountChecksBeforeLookup ==
    IsUpdate /\ req.actor \in Users
    => /\ CountEmpty => resp = "EmptyTagSelection"
       /\ CountTooMany => resp = "TooManyTags"
       /\ resp = "UnknownTag" => TargetExists /\ MayModify

C10_Witness ==
    /\ IsUpdate /\ req.actor \in Users
    /\ TargetExists /\ ~MayModify
    /\ CountEmpty /\ resp = "EmptyTagSelection"

----------------------------------------------------------------------------
(* Properties of the ranking queries *)

Listed == phase = "done" /\ out.query = "list"

Ranked == phase = "done" /\ out.query = "popular"

HasReplies(p) == \E d \in Dates : replies[p][d] > 0

\* the submit_date of the most recent reply of p is d
LatestIs(p, d) == replies[p][d] > 0 /\ \A e \in Dates : replies[p][e] > 0 => e <= d

\* p may be listed before q under (pinned DESC, latest_reply_time DESC NULLS LAST,
\* created_time DESC)
MayPrecede(p, q) ==
    IF table[p].pinned # table[q].pinned THEN table[p].pinned
    ELSE IF HasReplies(p) # HasReplies(q) THEN HasReplies(p)
    ELSE IF HasReplies(p) /\ ~(\E d \in Dates : LatestIs(p, d) /\ LatestIs(q, d))
        THEN \E d, e \in Dates : LatestIs(p, d) /\ LatestIs(q, e) /\ d > e
    ELSE table[p].created_time >= table[q].created_time

\* C5: the listing is sorted by (pinned DESC, latest_reply_time DESC NULLS LAST,
\* created_time DESC)
C5_ListingOrder ==
    Listed => \A i, j \in DOMAIN out.rows : i < j => MayPrecede(out.rows[i], out.rows[j])

\* the same on a database that sorts NULL last in a descending sort
C5_ListingOrderNullsLast ==
    Listed /\ backend = "nulls_last"
    => \A i, j \in DOMAIN out.rows : i < j => MayPrecede(out.rows[i], out.rows[j])

\* C6: every post popular() returns is public, has a reply, and its latest reply
\* lies strictly between now - 48h and now
C6_PopularEligibility ==
    Ranked => \A i \in DOMAIN out.rows :
                LET p == out.rows[i]
                IN  /\ table[p].public
                    /\ \E d \in Dates :
                         /\ LatestIs(p, d)
                         /\ d > out.now1 - WindowDays
                         /\ d < out.now2

C6_Witness ==
    /\ Ranked
    /\ Len(out.rows) = 1
    /\ \E p \in RankIds :
         /\ table[p].public
         /\ out.now1 - WindowDays \in Dates
         /\ LatestIs(p, out.now1 - WindowDays)
         /\ p # out.rows[1]

\* the replies of p submitted within the trailing window of the query
RecentReplies(p) ==
    SumCounts(replies[p], { d \in Dates : d > out.now1 - WindowDays /\ d < out.now2 })

\* C7: popular() lists a post with more replies inside the window first
C7_RankedByRecentReplies ==
    Ranked => \A i, j \in DOMAIN out.rows :
                i < j => RecentReplies(out.rows[i]) >= RecentReplies(out.rows[j])

----------------------------------------------------------------------------
(* Atomicity of the two writes of a mutation *)

\* C8: no state of the store holds a row whose fields were written by a mutation
\* without that mutation's tag set, or tags written without the mutation's fields
C8_AtomicWrites ==
    \A id \in 1..Len(posts) :
        /\ ghost[id].intent.hasTags => posts[id].tags = ghost[id].intent.tags
        /\ ghost[id].tornBy = 0

====
